---------------------------- MODULE Spec2Model ----------------------------
(***************************************************************************)
(* A model of the PDF band replacement service of obi-tuke:                *)
(* backend/app/pdf_processor.py (class PDFProcessor), and the /process     *)
(* endpoint of backend/app/main.py with backend/app/models.py.             *)
(*                                                                         *)
(* Python floats are IEEE-754 binary64 values.  They are modelled exactly: *)
(* a finite value is mant * 2^exp with a 53-bit significand kept as a      *)
(* natural number in base-2^15 limbs (TLC's integers are 32 bits wide),    *)
(* and every multiplication and division rounds to nearest, ties to even,  *)
(* with gradual underflow and overflow to infinity, as the hardware does.  *)
(* Every operand the processor handles is non-negative (heights, offsets,  *)
(* page widths, 72, 25.4), so the model carries no sign.                   *)
(***************************************************************************)
EXTENDS Integers, Sequences, FiniteSets, TLC

---------------------------------------------------------------------------
(* Natural numbers of any size: little-endian sequences of limbs, without  *)
(* high zero limbs; <<>> is zero.                                          *)

LimbBits == 15
Base == 32768

Max(a, b) == IF a >= b THEN a ELSE b
Min(a, b) == IF a <= b THEN a ELSE b

RECURSIVE BNorm(_)
BNorm(a) ==
    IF a = <<>> THEN <<>>
    ELSE IF a[Len(a)] = 0 THEN BNorm(SubSeq(a, 1, Len(a) - 1))
    ELSE a

RECURSIVE BFromInt(_)
BFromInt(n) ==
    IF n = 0 THEN <<>> ELSE <<n % Base>> \o BFromInt(n \div Base)

RECURSIVE BToInt(_)
BToInt(a) ==
    IF a = <<>> THEN 0 ELSE a[1] + Base * BToInt(Tail(a))

Limb(a, i) == IF i <= Len(a) THEN a[i] ELSE 0

RECURSIVE BCmpFrom(_, _, _)
BCmpFrom(a, b, i) ==
    IF i = 0 THEN 0
    ELSE IF a[i] > b[i] THEN 1
    ELSE IF a[i] < b[i] THEN -1
    ELSE BCmpFrom(a, b, i - 1)

BCmp(a, b) ==
    IF Len(a) > Len(b) THEN 1
    ELSE IF Len(a) < Len(b) THEN -1
    ELSE BCmpFrom(a, b, Len(a))

RECURSIVE BAddFrom(_, _, _, _)
BAddFrom(a, b, i, carry) ==
    IF i > Len(a) /\ i > Len(b)
    THEN IF carry = 0 THEN <<>> ELSE <<carry>>
    ELSE LET s == Limb(a, i) + Limb(b, i) + carry
         IN  <<s % Base>> \o BAddFrom(a, b, i + 1, s \div Base)

BAdd(a, b) == BAddFrom(a, b, 1, 0)

RECURSIVE BSubFrom(_, _, _, _)
BSubFrom(a, b, i, borrow) ==
    IF i > Len(a) THEN <<>>
    ELSE LET d == a[i] - Limb(b, i) - borrow
         IN  IF d < 0
             THEN <<d + Base>> \o BSubFrom(a, b, i + 1, 1)
             ELSE <<d>> \o BSubFrom(a, b, i + 1, 0)

\* a - b, for a >= b
BSub(a, b) == BNorm(BSubFrom(a, b, 1, 0))

RECURSIVE BMulSmallFrom(_, _, _, _)
BMulSmallFrom(a, k, i, carry) ==
    IF i > Len(a)
    THEN IF carry = 0 THEN <<>> ELSE <<carry>>
    ELSE LET p == a[i] * k + carry
         IN  <<p % Base>> \o BMulSmallFrom(a, k, i + 1, p \div Base)

\* a * k, for 0 <= k < Base
BMulSmall(a, k) == IF k = 0 THEN <<>> ELSE BMulSmallFrom(a, k, 1, 0)

RECURSIVE BMul(_, _)
BMul(a, b) ==
    IF b = <<>> \/ a = <<>> THEN <<>>
    ELSE LET rest == BMul(a, Tail(b))
         IN  BAdd(BMulSmall(a, b[1]),
                  IF rest = <<>> THEN <<>> ELSE <<0>> \o rest)

RECURSIVE BDivSmallFrom(_, _, _, _)
BDivSmallFrom(a, k, i, rem) ==
    IF i = 0 THEN <<>>
    ELSE LET cur == rem * Base + a[i]
         IN  BDivSmallFrom(a, k, i - 1, cur % k) \o <<cur \div k>>

\* floor(a / k), for 0 < k < Base
BDivSmall(a, k) == BNorm(BDivSmallFrom(a, k, Len(a), 0))

Zeros(n) == [i \in 1..n |-> 0]

\* a * 2^n
BShl(a, n) ==
    IF a = <<>> THEN <<>>
    ELSE Zeros(n \div LimbBits) \o BMulSmall(a, 2 ^ (n % LimbBits))

\* floor(a / 2^n)
BShr(a, n) ==
    LET q == n \div LimbBits
    IN  IF q >= Len(a) THEN <<>>
        ELSE BDivSmall(SubSeq(a, q + 1, Len(a)), 2 ^ (n % LimbBits))

RECURSIVE IntBitLen(_)
IntBitLen(n) == IF n = 0 THEN 0 ELSE 1 + IntBitLen(n \div 2)

BBitLen(a) ==
    IF a = <<>> THEN 0 ELSE LimbBits * (Len(a) - 1) + IntBitLen(a[Len(a)])

BBit(a, i) == (Limb(a, i \div LimbBits + 1) \div (2 ^ (i % LimbBits))) % 2

BIsOdd(a) == a # <<>> /\ a[1] % 2 = 1

\* floor(cur / b) for cur < b * Base, by bisection: lo * b <= cur < hi * b
RECURSIVE BDigit(_, _, _, _)
BDigit(cur, b, lo, hi) ==
    IF hi - lo <= 1 THEN lo
    ELSE LET mid == (lo + hi) \div 2
         IN  IF BCmp(BMulSmall(b, mid), cur) <= 0
             THEN BDigit(cur, b, mid, hi)
             ELSE BDigit(cur, b, lo, mid)

\* Long division, one limb of the dividend at a time, from the top:
\* <<limbs of floor(a / b), a mod b>> for b # 0.
RECURSIVE BDivModFrom(_, _, _, _)
BDivModFrom(a, b, i, r) ==
    IF i = 0 THEN <<<<>>, r>>
    ELSE LET cur  == BNorm(<<a[i]>> \o r)
             d    == BDigit(cur, b, 0, Base)
             rest == BDivModFrom(a, b, i - 1, BSub(cur, BMulSmall(b, d)))
         IN  <<rest[1] \o <<d>>, rest[2]>>

BDivMod(a, b) ==
    LET qr == BDivModFrom(a, b, Len(a), <<>>)
    IN  <<BNorm(qr[1]), qr[2]>>

---------------------------------------------------------------------------
(* IEEE-754 binary64, non-negative values.                                 *)
(* [k |-> "fin", m |-> significand, e |-> exponent] is m * 2^e; a non-zero *)
(* value is kept normalised: m has 53 bits, or e = EMin (subnormal).       *)

MantBits == 53
EMin == -1074
EMaxBits == 1024

DZero == [k |-> "fin", m |-> <<>>, e |-> 0]
DInf == [k |-> "inf", m |-> <<>>, e |-> 0]
DNaN == [k |-> "nan", m |-> <<>>, e |-> 0]

DNormalize(m, e) ==
    LET nb == BBitLen(m)
    IN  IF nb = 0 THEN DZero
        ELSE IF nb + e > EMaxBits THEN DInf
        ELSE IF nb > MantBits
             THEN [k |-> "fin", m |-> BShr(m, nb - MantBits), e |-> e + (nb - MantBits)]
        ELSE LET s == Min(MantBits - nb, e - EMin)
             IN  [k |-> "fin", m |-> BShl(m, s), e |-> e - s]

\* The binary64 nearest to (m + f) * 2^e, where 0 <= f < 1 and sticky says
\* f # 0; ties go to the even significand.
DRound(m, e, sticky) ==
    LET nb   == BBitLen(m)
        drop == Max(nb - MantBits, EMin - e)
    IN  IF drop <= 0 THEN DNormalize(m, e)
        ELSE LET q    == BShr(m, drop)
                 rem  == BSub(m, BShl(q, drop))
                 c    == BCmp(rem, BShl(<<1>>, drop - 1))
                 up   == c > 0 \/ (c = 0 /\ (sticky \/ BIsOdd(q)))
             IN  DNormalize(IF up THEN BAdd(q, <<1>>) ELSE q, e + drop)

DMul(a, b) ==
    IF a.k = "nan" \/ b.k = "nan" THEN DNaN
    ELSE IF a.k = "inf" \/ b.k = "inf"
         THEN IF a = DZero \/ b = DZero THEN DNaN ELSE DInf
    ELSE DRound(BMul(a.m, b.m), a.e + b.e, FALSE)

\* a / b for b # 0
DDiv(a, b) ==
    IF a.k = "nan" \/ b.k = "nan" THEN DNaN
    ELSE IF a.k = "inf" THEN IF b.k = "inf" THEN DNaN ELSE DInf
    ELSE IF b.k = "inf" \/ a = DZero THEN DZero
    ELSE LET s  == MantBits + 3 + Max(0, BBitLen(b.m) - BBitLen(a.m))
             qr == BDivMod(BShl(a.m, s), b.m)
         IN  DRound(qr[1], a.e - b.e - s, qr[2] # <<>>)

\* An int converted to float (exact below 2^31)
DFromInt(n) == DNormalize(BFromInt(n), 0)

\* The decimal literal n/d (25.4 is DLit(254, 10)): the binary64 nearest to it
DLit(n, d) == DDiv(DFromInt(n), DFromInt(d))

\* x * 2^k, for inputs of other magnitudes
DScale(x, k) == IF x.k = "fin" THEN DRound(x.m, x.e + k, FALSE) ELSE x

\* int(x): truncation toward zero
DTrunc(x) ==
    IF x.e >= 0 THEN BToInt(BShl(x.m, x.e)) ELSE BToInt(BShr(x.m, -x.e))

\* round(x): to the nearest integer, ties to even
DRoundInt(x) ==
    IF x.e >= 0 THEN BToInt(BShl(x.m, x.e))
    ELSE LET q   == BShr(x.m, -x.e)
             rem == BSub(x.m, BShl(q, -x.e))
             c   == BCmp(rem, BShl(<<1>>, -x.e - 1))
             up  == c > 0 \/ (c = 0 /\ BIsOdd(q))
         IN  BToInt(q) + (IF up THEN 1 ELSE 0)

DAdd(a, b) ==
    IF a.k = "nan" \/ b.k = "nan" THEN DNaN
    ELSE IF a.k = "inf" \/ b.k = "inf" THEN DInf
    ELSE LET e0 == Min(a.e, b.e)
         IN  DRound(BAdd(BShl(a.m, a.e - e0), BShl(b.m, b.e - e0)), e0, FALSE)

\* |a - b| <= n/d, decided exactly
DWithin(a, b, n, d) ==
    IF a.k # "fin" \/ b.k # "fin" THEN FALSE
    ELSE LET e0   == Min(a.e, b.e)
             am   == BShl(a.m, a.e - e0)
             bm   == BShl(b.m, b.e - e0)
             diff == IF BCmp(am, bm) >= 0 THEN BSub(am, bm) ELSE BSub(bm, am)
             lhs  == BMulSmall(diff, d)
         IN  IF e0 >= 0 THEN BCmp(BShl(lhs, e0), BFromInt(n)) <= 0
             ELSE BCmp(lhs, BShl(BFromInt(n), -e0)) <= 0

\* a <= b
DLeq(a, b) ==
    IF a.k # "fin" \/ b.k # "fin" THEN a.k = "fin" \/ (a.k = "inf" /\ b.k = "inf")
    ELSE LET e0 == Min(a.e, b.e)
         IN  BCmp(BShl(a.m, a.e - e0), BShl(b.m, b.e - e0)) <= 0

---------------------------------------------------------------------------
(* The data the processor handles.                                         *)

\* Optional[...] arguments
None == <<>>
Some(v) == <<v>>

\* Colours, as the (r, g, b) PIL makes of "#rrggbb"
White == <<255, 255, 255>>
Black == <<0, 0, 0>>
Blue == <<0, 0, 255>>

\* A PIL image: its mode, its size, the channels of its pixels (the model's
\* images are of one colour) and the text drawn on it.  Where the text lands
\* depends on the glyph metrics of the font file and is not modelled.
NoImage == [mode |-> "none", size |-> <<0, 0>>, px |-> <<>>, text |-> <<>>]
NewImage(mode, w, h, px) == [mode |-> mode, size |-> <<w, h>>, px |-> px, text |-> <<>>]

\* An uploaded byte buffer: its length and the image PIL decodes from it
\* (NoImage: PIL recognises no image format in it).
ImageBytes(n, img) == [n |-> n, img |-> img]
EmptyBytes == ImageBytes(0, NoImage)
NotAnImage == ImageBytes(22, NoImage)
Png(img) == ImageBytes(64, img)

\* A PDF byte buffer: whether MuPDF parses it, and its pages.  A page has its
\* rectangle's width and height (floats) and the drawing operations appended
\* to its content.
Page(w, h) == [width |-> w, height |-> h, content |-> <<>>]
PdfOf(pages) == [parses |-> TRUE, pages |-> pages]
NotAPdf == [parses |-> FALSE, pages |-> <<>>]

\* What a call hands back: a returned value, or a raised exception (no value)
Returned(v) == [kind |-> "return", value |-> v]
Raised == [kind |-> "raise", value |-> <<>>]
NoResult == [kind |-> "none", value |-> <<>>]

---------------------------------------------------------------------------
VARIABLES
    dpi,        \* self.dpi
    pc,         \* where the caller's one synchronous call stands
    call,       \* the public method called last and its arguments
    frame,      \* the locals of replace_band_with_image
    doc,        \* the fitz document replace_band_with_image holds
    openDocs,   \* open fitz documents, counted by the method that opened them
    ret,        \* the outcome of the last call
    events,     \* what the running call did to its document, in order
    request     \* the /process request being served: its inputs, the locals
                \* of the endpoint, the calls it made and its response

processor == <<dpi, pc, call, frame, doc, openDocs, ret, events>>

vars == <<dpi, pc, call, frame, doc, openDocs, ret, events, request>>

---------------------------------------------------------------------------
(* Unit conversion, pdf_processor.py lines 19-25.                          *)

MM_PER_INCH == DLit(254, 10)

mm_to_points(mm) == DDiv(DMul(mm, DFromInt(dpi)), MM_PER_INCH)

\* points_to_mm with the inch taken as 25 mm
points_to_mm_short_inch(points) == DDiv(DMul(points, DFromInt(25)), DFromInt(dpi))

points_to_mm(points) == DDiv(DMul(points, MM_PER_INCH), DFromInt(dpi))

---------------------------------------------------------------------------
(* create_band_image, lines 46-74.  fontLoad is what ImageFont.truetype    *)
(* does on this machine: it loads the font, raises OSError (no such file), *)
(* or raises something else (ValueError for a size of 0, ImportError       *)
(* without FreeType).                                                      *)

MaxFontSize == 48

Truthy(text_content) == text_content # None /\ text_content[1] # ""

create_band_image(width, height, background_color, text_content, text_color, fontLoad) ==
    LET img       == NewImage("RGB", width, height, background_color)
        font_size == Min(height \div 3, MaxFontSize)
        font      == IF fontLoad = "loaded"
                     THEN [face |-> "Arial.ttf", size |-> font_size]
                     ELSE [face |-> "default", size |-> 0]
    IN  IF ~Truthy(text_content) THEN [raised |-> FALSE, img |-> img]
        ELSE IF fontLoad \notin {"loaded", "OSError"}
             THEN [raised |-> TRUE, img |-> NoImage]
        ELSE [raised |-> FALSE,
              img |-> [img EXCEPT !.text = <<[content |-> text_content[1],
                                              fill |-> text_color,
                                              font |-> font]>>]]

---------------------------------------------------------------------------
(* replace_band_with_uploaded_image, lines 157-166: decode and flatten.    *)

\* Pillow's DIV255: a / 255 rounded, in integer arithmetic
Div255(a) == LET t == a + 128 IN ((t \div 256) + t) \div 256

\* background.paste(band_image, mask=alpha) on a white background
PasteOnWhite(c, alpha) == Div255(255 * (255 - alpha) + c * alpha)

\* Image.convert('RGB'): grey is copied to the three channels, alpha dropped
ConvertRGB(img) ==
    [img EXCEPT !.mode = "RGB",
                !.px = IF img.mode \in {"L", "LA"}
                       THEN <<img.px[1], img.px[1], img.px[1]>>
                       ELSE <<img.px[1], img.px[2], img.px[3]>>]

normalize_uploaded(band_image) ==
    IF band_image.mode = "RGBA"
    THEN [band_image EXCEPT !.mode = "RGB",
                            !.px = <<PasteOnWhite(band_image.px[1], band_image.px[4]),
                                     PasteOnWhite(band_image.px[2], band_image.px[4]),
                                     PasteOnWhite(band_image.px[3], band_image.px[4])>>]
    ELSE IF band_image.mode # "RGB" THEN ConvertRGB(band_image)
    ELSE band_image

\* Image.open raises when it recognises no image
uploaded_band(image_bytes) ==
    IF image_bytes.img = NoImage THEN [raised |-> TRUE, img |-> NoImage]
    ELSE [raised |-> FALSE, img |-> normalize_uploaded(image_bytes.img)]

---------------------------------------------------------------------------
(* process_pdf, lines 193-208: which band image goes to                    *)
(* replace_band_with_image.                                                *)

A4WidthMm == 210

\* process_pdf with the reference width left in millimetres
process_pdf_band_width_in_mm(height_mm, background_color, text_content, text_color, replace_image_bytes, fontLoad) ==
    IF replace_image_bytes # None /\ replace_image_bytes[1].n > 0
    THEN uploaded_band(replace_image_bytes[1])
    ELSE create_band_image(A4WidthMm, DTrunc(mm_to_points(height_mm)),
                           background_color, text_content, text_color, fontLoad)

process_pdf_band(height_mm, background_color, text_content, text_color, replace_image_bytes, fontLoad) ==
    IF replace_image_bytes # None /\ replace_image_bytes[1].n > 0
    THEN uploaded_band(replace_image_bytes[1])
    ELSE LET temp_width  == DTrunc(mm_to_points(DFromInt(A4WidthMm)))
             temp_height == DTrunc(mm_to_points(height_mm))
         IN  create_band_image(temp_width, temp_height, background_color,
                               text_content, text_color, fontLoad)

---------------------------------------------------------------------------
(* validate_pdf, lines 220-233: the verdict, and whether the document it   *)
(* opened is still open when it returns.                                   *)

MaxPagesAllowed == 50

\* validate_pdf with the page limit off by one
validate_pdf_cap_off_by_one(pdf_bytes) ==
    IF ~pdf_bytes.parses
    THEN [value |-> <<FALSE, "corrupt">>, left_open |-> 0]
    ELSE IF Len(pdf_bytes.pages) = 0
    THEN [value |-> <<FALSE, "no pages">>, left_open |-> 1]
    ELSE IF Len(pdf_bytes.pages) >= MaxPagesAllowed
    THEN [value |-> <<FALSE, "too many pages">>, left_open |-> 1]
    ELSE [value |-> <<TRUE, "">>, left_open |-> 0]

validate_pdf(pdf_bytes) ==
    IF ~pdf_bytes.parses
    THEN [value |-> <<FALSE, "corrupt">>, left_open |-> 0]
    ELSE IF Len(pdf_bytes.pages) = 0
    THEN [value |-> <<FALSE, "no pages">>, left_open |-> 1]
    ELSE IF Len(pdf_bytes.pages) > MaxPagesAllowed
    THEN [value |-> <<FALSE, "too many pages">>, left_open |-> 1]
    ELSE [value |-> <<TRUE, "">>, left_open |-> 0]

---------------------------------------------------------------------------
(* The /process endpoint's checks, main.py lines 67-109, and BandSettings, *)
(* models.py lines 4-10.                                                   *)

MaxPdfBytes == 10485760
MaxImageBytes == 5242880
MinHeightMm == 5
MaxHeightMm == 300

\* An UploadFile: its size (None when not known), its declared content type
\* and what read() gives
UploadFile(size, content_type, data) == [size |-> size, content_type |-> content_type, data |-> data]

\* `size and size > limit`
TooLarge(size, limit) == size # None /\ size[1] # 0 /\ size[1] > limit

\* A value of the settings' JSON object: a number (sign and magnitude),
\* something that is no number, or no such key
JNumber(neg, v) == [t |-> "number", neg |-> neg, v |-> v]
JText == [t |-> "string", neg |-> FALSE, v |-> DZero]
JAbsent == [t |-> "absent", neg |-> FALSE, v |-> DZero]

\* The settings form field: text that is no JSON, JSON that is no object,
\* or a JSON object with these keys
SettingsObject(height, yOffset, backgroundColor, textContent, textColor) ==
    [json |-> "object", height |-> height, yOffset |-> yOffset,
     backgroundColor |-> backgroundColor, textContent |-> textContent, textColor |-> textColor]

NotJson == [SettingsObject(JAbsent, JAbsent, None, None, None) EXCEPT !.json = "invalid"]
JsonArray == [SettingsObject(JAbsent, JAbsent, None, None, None) EXCEPT !.json = "array"]

\* Field(..., ge=5.0, le=300.0): required, a number, 5 <= height <= 300
height_valid(j) ==
    /\ j.t = "number"
    /\ j.v.k # "nan"
    /\ ~j.neg
    /\ DLeq(DFromInt(MinHeightMm), j.v)
    /\ DLeq(j.v, DFromInt(MaxHeightMm))

\* Field(default=0.0, ge=0.0)
yOffset_valid(j) ==
    \/ j.t = "absent"
    \/ /\ j.t = "number"
       /\ j.v.k # "nan"
       /\ ~j.neg \/ j.v = DZero

\* BandSettings(**settings_data): the validated settings, or ValueError
\* (pydantic's ValidationError)
BandSettings(data) ==
    IF height_valid(data.height) /\ yOffset_valid(data.yOffset)
    THEN [raised |-> "none",
          value |-> [height |-> data.height.v,
                     yOffset |-> IF data.yOffset.t = "absent" THEN DZero ELSE data.yOffset.v,
                     backgroundColor |-> data.backgroundColor,
                     textContent |-> data.textContent,
                     textColor |-> data.textColor]]
    ELSE [raised |-> "ValueError", value |-> None]

\* lines 85-86: json.loads, then BandSettings(**settings_data); ** of what
\* is no mapping raises TypeError
parse_settings(settings) ==
    IF settings.json = "invalid" THEN [raised |-> "JSONDecodeError", value |-> None]
    ELSE IF settings.json # "object" THEN [raised |-> "TypeError", value |-> None]
    ELSE BandSettings(settings)

\* `x or default`
Or(x, default) == IF x = None THEN default ELSE x[1]

---------------------------------------------------------------------------
(* The inputs the calls are given.                                         *)

MaxPages == 51
MaxLeaked == 1

A4 == Page(DFromInt(595), DFromInt(842))
Landscape == Page(DLit(84189, 100), DFromInt(595))

UniformPdf(n) == PdfOf([i \in 1..n |-> A4])

OnePage == PdfOf(<<A4>>)
TwoPages == PdfOf(<<Landscape, A4>>)

ValidateInputs == {NotAPdf, TwoPages} \cup {UniformPdf(n) : n \in 0..MaxPages}
ProcessPdfs == {NotAPdf, UniformPdf(0), OnePage, TwoPages}

Heights == {DFromInt(7), DFromInt(60)}
Offsets == {DZero, DFromInt(290)}

Style(bg, text, tc) == [background_color |-> bg, text_content |-> text, text_color |-> tc]
Styles == {Style(White, None, Black), Style(Blue, None, Black),
           Style(White, Some("obi"), Black), Style(Blue, Some("obi"), White)}

FontLoads == {"loaded", "OSError", "other"}

Orange == NewImage("RGB", 400, 100, <<255, 165, 0>>)
HalfRed == NewImage("RGBA", 400, 100, <<255, 0, 0, 128>>)
Grey == NewImage("L", 400, 100, <<90>>)
ClearGrey == NewImage("LA", 400, 100, <<0, 0>>)

Uploads == {EmptyBytes, NotAnImage, Png(Orange), Png(HalfRed), Png(Grey), Png(ClearGrey)}

BandWidths == {400, 595}
BandHeights == {2, 100, 170}
Texts == {None, Some(""), Some("obi")}

Big == DMul(DFromInt(10000000), DFromInt(100000000))
Huge == DScale(DFromInt(1), 1020)
Tiny == DScale(DFromInt(1), EMin)
RangeTop == DScale(DFromInt(1220703125), 13)

MmInputs == {DZero, Tiny, DFromInt(5), MM_PER_INCH, DFromInt(60), DFromInt(300),
             RangeTop, Big, Huge}
PointInputs == {DFromInt(72), DLit(17008, 100)}

\* What the /process endpoint is sent
ContentType(major, minor) == [major |-> major, minor |-> minor]
PdfType == Some(ContentType("application", "pdf"))
PngType == Some(ContentType("image", "png"))

PdfUploads ==
    {UploadFile(Some(1000), PdfType, d) :
        d \in {NotAPdf, UniformPdf(0), OnePage, TwoPages, UniformPdf(MaxPages)}}
    \cup {UploadFile(n, PdfType, OnePage) : n \in {None, Some(MaxPdfBytes), Some(MaxPdfBytes + 1)}}

SettingsInputs ==
    {NotJson, JsonArray,
     SettingsObject(JNumber(FALSE, DFromInt(5)), JAbsent, None, None, None),
     SettingsObject(JNumber(FALSE, DFromInt(300)), JNumber(FALSE, DFromInt(290)),
                    Some(Blue), Some("obi"), Some(White)),
     SettingsObject(JNumber(FALSE, DLit(499, 100)), JAbsent, None, None, None),
     SettingsObject(JNumber(FALSE, DLit(30001, 100)), JAbsent, None, None, None),
     SettingsObject(JNumber(TRUE, DFromInt(60)), JAbsent, None, None, None),
     SettingsObject(JNumber(FALSE, DNaN), JAbsent, None, None, None),
     SettingsObject(JText, JAbsent, None, None, None),
     SettingsObject(JAbsent, JNumber(FALSE, DZero), None, None, None),
     SettingsObject(JNumber(FALSE, DFromInt(60)), JNumber(TRUE, DFromInt(1)), None, None, None),
     SettingsObject(JNumber(FALSE, DFromInt(60)), JText, None, None, None)}

ImageUploads ==
    {None,
     Some(UploadFile(Some(500), PngType, Png(Orange))),
     Some(UploadFile(Some(MaxImageBytes + 1), PngType, Png(Orange))),
     Some(UploadFile(Some(500), PdfType, NotAnImage)),
     Some(UploadFile(Some(500), None, Png(Orange))),
     Some(UploadFile(Some(22), PngType, NotAnImage)),
     Some(UploadFile(Some(0), PngType, EmptyBytes))}

---------------------------------------------------------------------------
(* The state machine: one caller, one synchronous call at a time.          *)

DPI == 72

NoRect == <<DZero, DZero, DZero, DZero>>

EmptyFrame ==
    [pdf_bytes |-> NotAPdf, band_image |-> NoImage, height_mm |-> DZero,
     y_offset_mm |-> DZero, page_num |-> 0, page_width |-> DZero,
     band_height_pt |-> DZero, band_rect |-> NoRect,
     band_image_resized |-> NoImage]

NoDoc == [pages |-> <<>>, is_closed |-> TRUE]

NoRequest == [stage |-> "none"]

Init ==
    /\ dpi = DPI
    /\ pc = "idle"
    /\ call = [op |-> "none"]
    /\ frame = EmptyFrame
    /\ doc = NoDoc
    /\ openDocs = [validate_pdf |-> 0, replace_band_with_image |-> 0]
    /\ ret = NoResult
    /\ events = <<>>
    /\ request = NoRequest

\* The caller calls when no call is running
Ready == pc = "idle"

\* The caller has the outcome of its call and goes on
CallerContinues ==
    /\ pc = "returned"
    /\ pc' = "idle"
    /\ call' = [op |-> "none"]
    /\ ret' = NoResult
    /\ frame' = EmptyFrame
    /\ doc' = NoDoc
    /\ events' = <<>>
    /\ UNCHANGED <<dpi, openDocs>>

\* A call that runs to its end in one step
AtomicFrom(c, r) ==
    /\ call' = c
    /\ ret' = r
    /\ pc' = "returned"
    /\ frame' = EmptyFrame
    /\ doc' = NoDoc
    /\ events' = <<>>
    /\ dpi' = dpi

Atomic(c, r) == Ready /\ AtomicFrom(c, r)

MmToPoints(mm) ==
    /\ Atomic([op |-> "mm_to_points", mm |-> mm], Returned(mm_to_points(mm)))
    /\ openDocs' = openDocs

PointsToMm(points) ==
    /\ Atomic([op |-> "points_to_mm", points |-> points, of_mm |-> None],
              Returned(points_to_mm(points)))
    /\ openDocs' = openDocs

\* points_to_mm of what mm_to_points has just returned
PointsToMmBack ==
    /\ pc = "returned"
    /\ call.op = "mm_to_points"
    /\ AtomicFrom([op |-> "points_to_mm", points |-> ret.value, of_mm |-> Some(call.mm)],
              Returned(points_to_mm(ret.value)))
    /\ openDocs' = openDocs

CreateBandImage(width, height, style, fontLoad) ==
    LET r == create_band_image(width, height, style.background_color,
                               style.text_content, style.text_color, fontLoad)
    IN  /\ Atomic([op |-> "create_band_image", width |-> width, height |-> height,
                   background_color |-> style.background_color,
                   text_content |-> style.text_content,
                   text_color |-> style.text_color],
                  IF r.raised THEN Raised ELSE Returned(r.img))
        /\ openDocs' = openDocs

ValidatePdf(pdf_bytes) ==
    LET v == validate_pdf(pdf_bytes)
    IN  /\ openDocs.validate_pdf < MaxLeaked
        /\ Atomic([op |-> "validate_pdf", pdf_bytes |-> pdf_bytes], Returned(v.value))
        /\ openDocs' = [openDocs EXCEPT !.validate_pdf = @ + v.left_open]

\* The band image is ready (or making it raised): replace_band_with_image
\* is entered with it.
Enter(c, pdf_bytes, band, height_mm, y_offset_mm) ==
    /\ Ready
    /\ call' = c
    /\ events' = <<>>
    /\ doc' = NoDoc
    /\ IF band.raised
       THEN /\ pc' = "returned"
            /\ ret' = Raised
            /\ frame' = EmptyFrame
       ELSE /\ pc' = "open"
            /\ ret' = NoResult
            /\ frame' = [EmptyFrame EXCEPT !.pdf_bytes = pdf_bytes,
                                           !.band_image = band.img,
                                           !.height_mm = height_mm,
                                           !.y_offset_mm = y_offset_mm]
    /\ UNCHANGED <<dpi, openDocs>>

ProcessPdf(pdf_bytes, height_mm, y_offset_mm, style, replace_image_bytes, fontLoad) ==
    Enter([op |-> "process_pdf", pdf_bytes |-> pdf_bytes, height_mm |-> height_mm,
           y_offset_mm |-> y_offset_mm,
           background_color |-> style.background_color,
           text_content |-> style.text_content, text_color |-> style.text_color,
           replace_image_bytes |-> replace_image_bytes],
          pdf_bytes,
          process_pdf_band(height_mm, style.background_color, style.text_content,
                           style.text_color, replace_image_bytes, fontLoad),
          height_mm, y_offset_mm)

ReplaceBandWithUploadedImage(pdf_bytes, image_bytes, height_mm, y_offset_mm) ==
    Enter([op |-> "replace_band_with_uploaded_image", pdf_bytes |-> pdf_bytes,
           image_bytes |-> image_bytes, height_mm |-> height_mm,
           y_offset_mm |-> y_offset_mm],
          pdf_bytes, uploaded_band(image_bytes), height_mm, y_offset_mm)

ReplaceBandWithImage(pdf_bytes, band_image, height_mm, y_offset_mm) ==
    Enter([op |-> "replace_band_with_image", pdf_bytes |-> pdf_bytes,
           band_image |-> band_image, height_mm |-> height_mm,
           y_offset_mm |-> y_offset_mm],
          pdf_bytes, [raised |-> FALSE, img |-> band_image], height_mm, y_offset_mm)

Event(ev, page) == [ev |-> ev, page |-> page]

\* line 94: fitz.open, before the try
OpenDocument ==
    /\ pc = "open"
    /\ IF ~frame.pdf_bytes.parses
       THEN /\ pc' = "returned"
            /\ ret' = Raised
            /\ UNCHANGED <<doc, openDocs, events>>
       ELSE /\ doc' = [pages |-> frame.pdf_bytes.pages, is_closed |-> FALSE]
            /\ openDocs' = [openDocs EXCEPT !.replace_band_with_image = @ + 1]
            /\ events' = <<Event("open", 0)>>
            /\ pc' = IF Len(frame.pdf_bytes.pages) = 0 THEN "serialize" ELSE "erase"
            /\ ret' = ret
    /\ UNCHANGED <<dpi, call, frame>>

\* the band rectangle cut off at the bottom of the page
band_rect_clamped(page, height_mm, y_offset_mm) ==
    LET y_offset_pt == mm_to_points(y_offset_mm)
        bottom      == DAdd(y_offset_pt, mm_to_points(height_mm))
    IN  <<DZero, y_offset_pt, page.width,
          IF DLeq(bottom, page.height) THEN bottom ELSE page.height>>

band_rect_of(page, height_mm, y_offset_mm) ==
    LET band_height_pt == mm_to_points(height_mm)
        y_offset_pt    == mm_to_points(y_offset_mm)
    IN  <<DZero, y_offset_pt, page.width, DAdd(y_offset_pt, band_height_pt)>>

DrawRect(rect) == [op |-> "rect", rect |-> rect, fill |-> <<1, 1, 1>>, stream |-> EmptyBytes]
InsertedImage(rect, stream) == [op |-> "image", rect |-> rect, fill |-> <<>>, stream |-> stream]

\* lines 99-114: the page's geometry, and the white rectangle over the band
EraseBand ==
    /\ pc = "erase"
    /\ LET n         == frame.page_num + 1
           page      == doc.pages[n]
           band_rect == band_rect_of(page, frame.height_mm, frame.y_offset_mm)
       IN  /\ frame' = [frame EXCEPT !.page_width = page.width,
                                     !.band_height_pt = mm_to_points(frame.height_mm),
                                     !.band_rect = band_rect]
           /\ doc' = [doc EXCEPT !.pages[n].content = Append(@, DrawRect(band_rect))]
           /\ events' = Append(events, Event("erase", frame.page_num))
    /\ pc' = "resize"
    /\ UNCHANGED <<dpi, call, openDocs, ret>>

\* the resize target rounded to nearest instead of truncated
resized_size_rounded(page_width, band_height_pt) == <<DRoundInt(page_width), DRoundInt(band_height_pt)>>

resized_size(page_width, band_height_pt) == <<DTrunc(page_width), DTrunc(band_height_pt)>>

\* lines 117-125: the band image at the page's size, encoded as PNG
ResizeBand ==
    /\ pc = "resize"
    /\ frame' = [frame EXCEPT !.band_image_resized =
                    [frame.band_image EXCEPT !.size =
                        resized_size(frame.page_width, frame.band_height_pt)]]
    /\ pc' = "insert"
    /\ UNCHANGED <<dpi, call, doc, openDocs, ret, events>>

\* InsertImage with the loop left after its first round
InsertImageFirstPageOnly ==
    /\ pc = "insert"
    /\ LET n == frame.page_num + 1
       IN  doc' = [doc EXCEPT !.pages[n].content =
                      Append(@, InsertedImage(frame.band_rect, Png(frame.band_image_resized)))]
    /\ events' = Append(events, Event("insert", frame.page_num))
    /\ frame' = [frame EXCEPT !.page_num = Len(doc.pages)]
    /\ pc' = "serialize"
    /\ UNCHANGED <<dpi, call, openDocs, ret>>

\* line 128, and the loop's next round (line 98)
InsertImage ==
    /\ pc = "insert"
    /\ LET n == frame.page_num + 1
       IN  doc' = [doc EXCEPT !.pages[n].content =
                      Append(@, InsertedImage(frame.band_rect, Png(frame.band_image_resized)))]
    /\ events' = Append(events, Event("insert", frame.page_num))
    /\ frame' = [frame EXCEPT !.page_num = @ + 1]
    /\ pc' = IF frame.page_num + 1 < Len(doc.pages) THEN "erase" ELSE "serialize"
    /\ UNCHANGED <<dpi, call, openDocs, ret>>

close_document(d) == [d EXCEPT !.is_closed = TRUE]

\* lines 131-132 and the finally clause, 137-138
Serialize ==
    /\ pc = "serialize"
    /\ ret' = Returned(PdfOf(doc.pages))
    /\ doc' = close_document(doc)
    /\ openDocs' = [openDocs EXCEPT !.replace_band_with_image = @ - 1]
    /\ events' = events \o <<Event("tobytes", frame.page_num), Event("close", frame.page_num)>>
    /\ pc' = "returned"
    /\ UNCHANGED <<dpi, call, frame>>

\* Fail with doc.close() on the success path only, not in a finally clause
FailWithoutClose ==
    /\ pc \in {"erase", "resize", "insert", "serialize"}
    /\ ret' = Raised
    /\ events' = events
    /\ pc' = "returned"
    /\ UNCHANGED <<dpi, call, frame, doc, openDocs>>

\* lines 134-138: a call of the loop or tobytes raises; the exception is
\* logged and raised again, and the finally clause closes the document
Fail ==
    /\ pc \in {"erase", "resize", "insert", "serialize"}
    /\ ret' = Raised
    /\ doc' = close_document(doc)
    /\ openDocs' = [openDocs EXCEPT !.replace_band_with_image = @ - 1]
    /\ events' = Append(events, Event("close", frame.page_num))
    /\ pc' = "returned"
    /\ UNCHANGED <<dpi, call, frame>>

---------------------------------------------------------------------------
(* The /process endpoint, main.py lines 50-147.                            *)

NewRequest(pdf, settings, replaceImage) ==
    [stage |-> "size", pdf |-> pdf, settings |-> settings, replaceImage |-> replaceImage,
     pdf_bytes |-> None, is_valid |-> None, band_settings |-> None,
     replace_image_bytes |-> None, calls |-> <<>>, response |-> None]

Response(status_code, body) == [status_code |-> status_code, body |-> body]

\* raise HTTPException(status_code=...): the request ends with no body
HTTPException(status_code) ==
    [request EXCEPT !.stage = "done", !.response = Some(Response(status_code, None))]

\* A request arrives while the processor is idle
ReceiveRequest(pdf, settings, replaceImage) ==
    /\ request = NoRequest
    /\ pc = "idle"
    /\ openDocs.validate_pdf < MaxLeaked
    /\ request' = NewRequest(pdf, settings, replaceImage)
    /\ UNCHANGED processor

\* lines 69-76: the size limit of the PDF, then pdf.read()
CheckPdfSize ==
    /\ request.stage = "size"
    /\ request' = IF TooLarge(request.pdf.size, MaxPdfBytes)
                  THEN HTTPException(413)
                  ELSE [request EXCEPT !.stage = "validate",
                                       !.pdf_bytes = Some(request.pdf.data)]
    /\ UNCHANGED processor

\* ValidateUpload with the verdict not looked at
ValidateUploadUnchecked ==
    /\ request.stage = "validate"
    /\ LET v == validate_pdf(request.pdf_bytes[1])
       IN  /\ request' = [request EXCEPT !.stage = "settings",
                                         !.is_valid = Some(v.value[1]),
                                         !.calls = Append(@, "validate_pdf")]
           /\ openDocs' = [openDocs EXCEPT !.validate_pdf = @ + v.left_open]
    /\ UNCHANGED <<dpi, pc, call, frame, doc, ret, events>>

\* lines 79-81: validate_pdf, and 400 when it says no
ValidateUpload ==
    /\ request.stage = "validate"
    /\ LET v == validate_pdf(request.pdf_bytes[1])
           checked == [request EXCEPT !.is_valid = Some(v.value[1]),
                                      !.calls = Append(@, "validate_pdf")]
       IN  /\ request' = IF ~v.value[1]
                         THEN [checked EXCEPT !.stage = "done",
                                              !.response = Some(Response(400, None))]
                         ELSE [checked EXCEPT !.stage = "settings"]
           /\ openDocs' = [openDocs EXCEPT !.validate_pdf = @ + v.left_open]
    /\ UNCHANGED <<dpi, pc, call, frame, doc, ret, events>>

\* lines 84-91: the settings; JSONDecodeError and ValueError give 400, any
\* other exception reaches the handler of lines 142-147 and gives 500
ParseSettings ==
    /\ request.stage = "settings"
    /\ LET parsed == parse_settings(request.settings)
       IN  request' = IF parsed.raised \in {"JSONDecodeError", "ValueError"}
                      THEN HTTPException(400)
                      ELSE IF parsed.raised # "none" THEN HTTPException(500)
                      ELSE [request EXCEPT !.stage = "image",
                                           !.band_settings = Some(parsed.value)]
    /\ UNCHANGED processor

\* lines 94-109: the replacement image's size and declared type, then read()
CheckReplaceImage ==
    /\ request.stage = "image"
    /\ request' =
         IF request.replaceImage = None THEN [request EXCEPT !.stage = "process"]
         ELSE LET replaceImage == request.replaceImage[1]
              IN  IF TooLarge(replaceImage.size, MaxImageBytes) THEN HTTPException(413)
                  ELSE IF \/ replaceImage.content_type = None
                          \/ replaceImage.content_type[1].major # "image"
                       THEN HTTPException(400)
                  ELSE [request EXCEPT !.stage = "process",
                                       !.replace_image_bytes = Some(replaceImage.data)]
    /\ UNCHANGED processor

\* lines 113-121: the call of pdf_processor.process_pdf
CallProcessPdf(fontLoad) ==
    /\ request.stage = "process"
    /\ LET band_settings == request.band_settings[1]
       IN  ProcessPdf(request.pdf_bytes[1], band_settings.height, band_settings.yOffset,
                      Style(Or(band_settings.backgroundColor, White),
                            band_settings.textContent,
                            Or(band_settings.textColor, Black)),
                      request.replace_image_bytes, fontLoad)
    /\ request' = [request EXCEPT !.stage = "processing",
                                  !.calls = Append(@, "process_pdf")]

\* lines 122-138: 500 when process_pdf raised, the processed PDF otherwise
Respond ==
    /\ request.stage = "processing"
    /\ pc = "returned"
    /\ request' = [request EXCEPT
                      !.stage = "done",
                      !.response = IF ret.kind = "return"
                                   THEN Some(Response(200, Some(ret.value)))
                                   ELSE Some(Response(500, None))]
    /\ pc' = "idle"
    /\ call' = [op |-> "none"]
    /\ ret' = NoResult
    /\ frame' = EmptyFrame
    /\ doc' = NoDoc
    /\ events' = <<>>
    /\ UNCHANGED <<dpi, openDocs>>

\* The response has gone out
RequestDone ==
    /\ request.stage = "done"
    /\ request' = NoRequest
    /\ UNCHANGED processor

\* A call from outside the endpoint, while no request is served
Direct == request = NoRequest /\ request' = request

Next ==
    \/ \E mm \in MmInputs : Direct /\ MmToPoints(mm)
    \/ \E points \in PointInputs : Direct /\ PointsToMm(points)
    \/ Direct /\ PointsToMmBack
    \/ \E w \in BandWidths, h \in BandHeights, bg \in {White, Blue}, text \in Texts,
          f \in FontLoads : Direct /\ CreateBandImage(w, h, Style(bg, text, Black), f)
    \/ \E pdf \in ValidateInputs : Direct /\ ValidatePdf(pdf)
    \/ \E pdf \in ProcessPdfs, h \in Heights, y \in Offsets, s \in Styles,
          r \in {None} \cup {Some(u) : u \in Uploads}, f \in FontLoads :
          Direct /\ ProcessPdf(pdf, h, y, s, r, f)
    \/ \E u \in Uploads :
          Direct /\ ReplaceBandWithUploadedImage(OnePage, u, DFromInt(60), DZero)
    \/ Direct /\ ReplaceBandWithImage(TwoPages, Orange, DFromInt(60), DZero)
    \/ OpenDocument /\ request' = request
    \/ EraseBand /\ request' = request
    \/ ResizeBand /\ request' = request
    \/ InsertImage /\ request' = request
    \/ Serialize /\ request' = request
    \/ Fail /\ request' = request
    \/ Direct /\ CallerContinues
    \/ \E pdf \in PdfUploads, settings \in SettingsInputs, replaceImage \in ImageUploads :
          ReceiveRequest(pdf, settings, replaceImage)
    \/ CheckPdfSize
    \/ ValidateUpload
    \/ ParseSettings
    \/ CheckReplaceImage
    \/ \E f \in FontLoads : CallProcessPdf(f)
    \/ Respond
    \/ RequestDone

Spec == Init /\ [][Next]_vars

---------------------------------------------------------------------------
(* The properties.                                                         *)

RanReplace == call.op \in {"process_pdf", "replace_band_with_uploaded_image", "replace_band_with_image"}

\* C1: when validate_pdf has returned, no document it opened is open: it
\* closes the handle in the zero-page, the too-many-pages, the success and
\* the parse-failure branch.
C1_ValidateClosesItsDocument ==
    (pc = "returned" /\ call.op = "validate_pdf") => openDocs.validate_pdf = 0

\* C2: validate_pdf returns (it never raises) the one verdict its input
\* decides: corrupt for bytes that do not parse, empty for 0 pages, too many
\* pages for more than 50, and (TRUE, "") for 1 to 50 pages.
C2_ValidateVerdict ==
    (pc = "returned" /\ call.op = "validate_pdf") =>
        LET n == Len(call.pdf_bytes.pages)
        IN  /\ ret.kind = "return"
            /\ ret.value =
                 IF ~call.pdf_bytes.parses THEN <<FALSE, "corrupt">>
                 ELSE IF n = 0 THEN <<FALSE, "no pages">>
                 ELSE IF n >= 51 THEN <<FALSE, "too many pages">>
                 ELSE <<TRUE, "">>

\* C2's case: a document of exactly 50 pages has been accepted
C2_Witness ==
    /\ pc = "returned"
    /\ call.op = "validate_pdf"
    /\ call.pdf_bytes.parses
    /\ Len(call.pdf_bytes.pages) = 50
    /\ ret = Returned(<<TRUE, "">>)

BandOnPage(page) ==
    /\ Len(page.content) = 2
    /\ page.content[1].op = "rect"
    /\ page.content[2].op = "image"

\* C3: a call of replace_band_with_image that opened the document ends by
\* returning the bytes of the document with every page mutated, or by
\* raising with no bytes; either way the document is closed when control is
\* back with the caller, and no bytes are handed out before.
C3_AllOrNothingAndClosed ==
    /\ (RanReplace /\ pc \in {"open", "erase", "resize", "insert", "serialize"}) =>
            ret = NoResult
    /\ (RanReplace /\ pc = "returned" /\ events # <<>>) =>
        /\ openDocs.replace_band_with_image = 0
        /\ doc.is_closed
        /\ \/ /\ ret.kind = "return"
              /\ ret.value.parses
              /\ Len(ret.value.pages) = Len(call.pdf_bytes.pages)
              /\ \A i \in 1..Len(ret.value.pages) : BandOnPage(ret.value.pages[i])
           \/ ret = Raised

\* C3's case: the call failed after it had mutated a page, and the document
\* is closed
C3_Witness ==
    /\ RanReplace
    /\ pc = "returned"
    /\ ret = Raised
    /\ \E k \in 1..Len(events) : events[k].ev = "insert"
    /\ doc.is_closed
    /\ openDocs.replace_band_with_image = 0

InLoop == pc \in {"erase", "resize", "insert", "serialize"}

\* C4: in process_pdf with replace_image_bytes given, whatever the buffer,
\* the band image is the normalized uploaded image, and a call with another
\* background_color, text_content and text_color gets the same band image.
C4_UploadWinsOverStyle ==
    (pc = "open" /\ call.op = "process_pdf" /\ call.replace_image_bytes # None) =>
        /\ uploaded_band(call.replace_image_bytes[1]) = [raised |-> FALSE, img |-> frame.band_image]
        /\ \A s \in Styles, f \in FontLoads :
               process_pdf_band(call.height_mm, s.background_color, s.text_content,
                                s.text_color, call.replace_image_bytes, f)
                 = [raised |-> FALSE, img |-> frame.band_image]

\* n is x cut to a whole number: n <= x < n + 1
IsTruncationOf(n, x) == DLeq(DFromInt(n), x) /\ ~DLeq(DFromInt(n + 1), x)

\* n is a whole number nearest to x: |x - n| <= 1/2
IsNearestTo(n, x) == DWithin(DFromInt(n), x, 1, 2)

\* C5 as stated: on every page the band image is resized to
\* (round(pageWidth), round(mmToUnits(heightMm))) pixels.
C5_ResizedToRounded ==
    (RanReplace /\ pc = "insert") =>
        /\ IsNearestTo(frame.band_image_resized.size[1], doc.pages[frame.page_num + 1].width)
        /\ IsNearestTo(frame.band_image_resized.size[2], mm_to_points(call.height_mm))

\* C5, amended: on every page the band image is resized to
\* (int(pageWidth), int(mmToUnits(heightMm))) pixels, both cut toward zero.
C5_ResizedToTruncated ==
    (RanReplace /\ pc = "insert") =>
        /\ IsTruncationOf(frame.band_image_resized.size[1], doc.pages[frame.page_num + 1].width)
        /\ IsTruncationOf(frame.band_image_resized.size[2], mm_to_points(call.height_mm))

\* C5's case: a band of 7 mm (19.84 points) on a page 841.89 points wide has
\* been resized to 841 by 19 pixels
C5_Witness ==
    /\ RanReplace
    /\ pc = "insert"
    /\ call.height_mm = DFromInt(7)
    /\ doc.pages[frame.page_num + 1].width = DLit(84189, 100)
    /\ frame.band_image_resized.size = <<841, 19>>

\* C6: on every page the rectangle erased and the rectangle the image is
\* placed at are (0, mmToUnits(yOffsetMm), the page's own width,
\* mmToUnits(yOffsetMm) + mmToUnits(heightMm)), past the page's bottom or not.
C6_BandRectPerPage ==
    (RanReplace /\ Len(doc.pages) > 0) =>
        LET top    == mm_to_points(call.y_offset_mm)
            bottom == DAdd(top, mm_to_points(call.height_mm))
        IN  /\ \A i \in 1..Len(doc.pages) :
                  \A k \in 1..Len(doc.pages[i].content) :
                      doc.pages[i].content[k].rect = <<DZero, top, doc.pages[i].width, bottom>>
            /\ pc \in {"resize", "insert"} =>
                  frame.band_rect = <<DZero, top, doc.pages[frame.page_num + 1].width, bottom>>

\* C6's case: two pages of different widths carry their bands, and the
\* band's bottom edge lies below the bottom of a page
C6_Witness ==
    /\ RanReplace
    /\ pc = "serialize"
    /\ Len(doc.pages) = 2
    /\ doc.pages[1].width # doc.pages[2].width
    /\ \A i \in 1..2 : /\ BandOnPage(doc.pages[i])
                       /\ doc.pages[i].content[1].rect = doc.pages[i].content[2].rect
                       /\ doc.pages[i].content[2].rect[3] = doc.pages[i].width
    /\ ~DLeq(doc.pages[1].content[2].rect[4], doc.pages[1].height)

HasAlpha(img) == img.mode \in {"RGBA", "LA"}

ColourOf(img) ==
    IF img.mode \in {"L", "LA"} THEN <<img.px[1], img.px[1], img.px[1]>>
    ELSE <<img.px[1], img.px[2], img.px[3]>>

AlphaOf(img) == img.px[Len(img.px)]

Abs(n) == IF n < 0 THEN -n ELSE n

\* out is c over white with weight alpha / 255, to the nearest level
IsOverWhite(out, c, alpha) == 2 * Abs(255 * out - (c * alpha + 255 * (255 - alpha))) <= 255

\* C7: the normalized upload is an opaque 3-channel image; an image with an
\* alpha channel, whatever its mode, is composited over white; any other
\* image keeps its colour.
C7_AlphaOverWhite ==
    (pc = "open" /\ call.op = "replace_band_with_uploaded_image") =>
        LET src == call.image_bytes.img
            out == frame.band_image
        IN  /\ out.mode = "RGB"
            /\ Len(out.px) = 3
            /\ out.size = src.size
            /\ IF HasAlpha(src)
               THEN \A k \in 1..3 : IsOverWhite(out.px[k], ColourOf(src)[k], AlphaOf(src))
               ELSE out.px = ColourOf(src)

Generated == call.op = "process_pdf" /\ call.replace_image_bytes = None

\* C8 as stated: with no replacement image, the generated band image is as
\* wide as 210 mm in points and as high as mmToUnits(heightMm).
C8_GeneratedSizeExact ==
    (Generated /\ (pc = "open" \/ InLoop)) =>
        /\ DFromInt(frame.band_image.size[1]) = mm_to_points(DFromInt(210))
        /\ DFromInt(frame.band_image.size[2]) = mm_to_points(call.height_mm)

\* C8, amended: with no replacement image, the generated band image is
\* int(mmToUnits(210)) = 595 pixels wide, whatever the pages' widths, and
\* int(mmToUnits(heightMm)) pixels high (both cut to whole pixels), and every
\* page gets this one image, resized.
C8_GeneratedOnceAtA4Width ==
    (Generated /\ (pc = "open" \/ InLoop)) =>
        /\ IsTruncationOf(frame.band_image.size[1], mm_to_points(DFromInt(210)))
        /\ frame.band_image.size[1] = 595
        /\ IsTruncationOf(frame.band_image.size[2], mm_to_points(call.height_mm))
        /\ frame.band_image.mode = "RGB"
        /\ frame.band_image.px = call.background_color
        /\ \A i \in 1..Len(doc.pages) :
              Len(doc.pages[i].content) = 2 =>
                  doc.pages[i].content[2].stream.img =
                      [frame.band_image EXCEPT !.size = doc.pages[i].content[2].stream.img.size]

\* C8's case: a generated band is on both pages of a document whose first
\* page is not 595 points wide
C8_Witness ==
    /\ Generated
    /\ pc = "serialize"
    /\ Len(doc.pages) = 2
    /\ DTrunc(doc.pages[1].width) # 595
    /\ \A i \in 1..2 : BandOnPage(doc.pages[i])
    /\ frame.band_image.size = <<595, 19>>

RoundTrip == pc = "returned" /\ call.op = "points_to_mm" /\ call.of_mm # None

Anchors ==
    /\ (pc = "returned" /\ call.op = "mm_to_points" /\ call.mm = DLit(254, 10)) =>
            ret = Returned(DFromInt(72))
    /\ (pc = "returned" /\ call.op = "points_to_mm" /\ call.points = DFromInt(72)) =>
            ret = Returned(DLit(254, 10))

\* C9 as stated: points_to_mm(mm_to_points(x)) is within 0.01 of x for all
\* x >= 0, mm_to_points(25.4) = 72, points_to_mm(72) = 25.4, and dpi stays 72.
C9_RoundTripForAll ==
    /\ RoundTrip => DWithin(ret.value, call.of_mm[1], 1, 100)
    /\ Anchors
    /\ dpi = 72

\* C9, amended: points_to_mm(mm_to_points(x)) is within 0.01 of x for all
\* 0 <= x <= 10^13, mm_to_points(25.4) = 72, points_to_mm(72) = 25.4, and dpi
\* stays 72.
C9_RoundTripInRange ==
    /\ (RoundTrip /\ DLeq(call.of_mm[1], DScale(DFromInt(1220703125), 13))) =>
            DWithin(ret.value, call.of_mm[1], 1, 100)
    /\ Anchors
    /\ dpi = 72

\* C9's case: 60 mm has gone to points and back
C9_Witness ==
    /\ RoundTrip
    /\ call.of_mm = Some(DFromInt(60))
    /\ call.points # DFromInt(60)
    /\ DWithin(ret.value, DFromInt(60), 1, 100)

\* C10: create_band_image with non-empty text never fails, whatever loading
\* the preferred font does, and returns an opaque 3-channel image of the
\* requested width and height.
C10_TextNeverFails ==
    (pc = "returned" /\ call.op = "create_band_image" /\ Truthy(call.text_content)) =>
        /\ ret.kind = "return"
        /\ ret.value.mode = "RGB"
        /\ Len(ret.value.px) = 3
        /\ ret.value.size = <<call.width, call.height>>

\* what a successful call on n pages does, in order
FullTrace(n) ==
    <<Event("open", 0)>>
    \o [k \in 1..(2 * n) |-> Event(IF k % 2 = 1 THEN "erase" ELSE "insert", (k - 1) \div 2)]
    \o <<Event("tobytes", n), Event("close", n)>>

IsPrefix(s, t) == Len(s) <= Len(t) /\ SubSeq(t, 1, Len(s)) = s

\* C11: while replace_band_with_image runs, what it has done is a prefix of:
\* open, then for the pages 0..n-1 in order the erase and then the embed of
\* that page, then one serialization; a call that returns has done all of
\* it, each page of its output is the input's page at that place with one
\* white rectangle and then one image at the same rectangle, and there are
\* as many pages as in the input.
C11_PagesInOrderThenSerialize ==
    (RanReplace /\ events # <<>>) =>
        LET n    == Len(call.pdf_bytes.pages)
            full == FullTrace(n)
        IN  /\ pc # "returned" => IsPrefix(events, full)
            /\ (pc # "returned" /\ pc # "serialize") =>
                  \A i \in 1..n :
                      Len(doc.pages[i].content) =
                          Cardinality({k \in 1..Len(events) :
                              events[k].page = i - 1 /\ events[k].ev \in {"erase", "insert"}})
            /\ (pc = "returned" /\ ret.kind = "return") =>
                  /\ events = full
                  /\ Len(ret.value.pages) = n
                  /\ \A i \in 1..n :
                        LET before == call.pdf_bytes.pages[i]
                            after  == ret.value.pages[i]
                        IN  /\ after.width = before.width
                            /\ after.height = before.height
                            /\ Len(after.content) = Len(before.content) + 2
                            /\ after.content[1].op = "rect"
                            /\ after.content[1].fill = <<1, 1, 1>>
                            /\ after.content[2].op = "image"
                            /\ after.content[2].rect = after.content[1].rect

\* C11's case: a call on two pages of different sizes has returned
C11_Witness ==
    /\ RanReplace
    /\ pc = "returned"
    /\ ret.kind = "return"
    /\ Len(call.pdf_bytes.pages) = 2
    /\ call.pdf_bytes.pages[1] # call.pdf_bytes.pages[2]
    /\ Len(events) = 7
    /\ events[4] = Event("erase", 1)
    /\ events[6].ev = "tobytes"

\* the request is one the endpoint has to turn away: the PDF is over 10 MB
\* or not valid, the settings are no JSON object with 5 <= height <= 300
\* and yOffset >= 0, or the replacement file is over 5 MB or not declared
\* an image
MustReject ==
    \/ request.pdf.size # None /\ request.pdf.size[1] > MaxPdfBytes
    \/ validate_pdf(request.pdf.data).value # <<TRUE, "">>
    \/ request.settings.json # "object"
    \/ LET height == request.settings.height
       IN  ~(/\ height.t = "number" /\ height.v.k = "fin" /\ ~height.neg
             /\ DLeq(DFromInt(5), height.v) /\ DLeq(height.v, DFromInt(300)))
    \/ LET yOffset == request.settings.yOffset
       IN  ~(\/ yOffset.t = "absent"
             \/ /\ yOffset.t = "number" /\ yOffset.v.k # "nan"
                /\ (~yOffset.neg \/ yOffset.v = DZero))
    \/ /\ request.replaceImage # None
       /\ \/ /\ request.replaceImage[1].size # None
             /\ request.replaceImage[1].size[1] > MaxImageBytes
          \/ request.replaceImage[1].content_type \notin
                {Some(ContentType("image", minor)) : minor \in {"png", "jpeg"}}

\* C12: a /process request calls validate_pdf first and process_pdf at most
\* once after it; process_pdf is called only when validate_pdf returned
\* TRUE for the bytes it is then given and the settings were parsed with
\* 5 <= height <= 300 and yOffset >= 0, which are the values it is given; a
\* request that is turned away (PDF too large or not valid, settings
\* malformed, replacement file too large or not an image type) never calls
\* process_pdf; and only a request that did call it returns PDF bytes.
C12_ProcessOnlyAfterChecks ==
    request # NoRequest =>
        LET called == Len(request.calls) = 2
        IN  /\ IsPrefix(request.calls, <<"validate_pdf", "process_pdf">>)
            /\ called <=> request.stage = "processing" \/ (request.stage = "done" /\ ~MustReject)
            /\ called => /\ ~MustReject
                         /\ request.is_valid = Some(TRUE)
                         /\ validate_pdf(request.pdf_bytes[1]).value = <<TRUE, "">>
            /\ request.stage = "processing" =>
                  /\ call.op = "process_pdf"
                  /\ call.pdf_bytes = request.pdf_bytes[1]
                  /\ call.pdf_bytes = request.pdf.data
                  /\ call.height_mm = request.settings.height.v
                  /\ DLeq(DFromInt(5), call.height_mm) /\ DLeq(call.height_mm, DFromInt(300))
                  /\ DLeq(DZero, call.y_offset_mm)
            /\ request.stage # "processing" => call.op # "process_pdf"
            /\ request.stage = "done" =>
                  /\ request.response # None
                  /\ request.response[1].body # None =>
                        called /\ request.response[1].status_code = 200
                  /\ MustReject => request.response[1].status_code \in {400, 413, 500}

\* C12's case: a request with a valid two-page PDF and a height of 300 mm
\* has gone through validate_pdf and process_pdf and returns the PDF
C12_Witness ==
    /\ request # NoRequest
    /\ request.stage = "done"
    /\ request.calls = <<"validate_pdf", "process_pdf">>
    /\ request.is_valid = Some(TRUE)
    /\ request.settings.height.v = DFromInt(300)
    /\ Len(request.pdf.data.pages) = 2
    /\ request.response[1].status_code = 200
    /\ request.response[1].body # None

\* C12's other case: a request with a PDF that is not valid has been turned
\* away after validate_pdf, with no call of process_pdf
C12_RejectedWitness ==
    /\ request # NoRequest
    /\ request.stage = "done"
    /\ request.calls = <<"validate_pdf">>
    /\ request.is_valid = Some(FALSE)
    /\ request.response = Some(Response(400, None))

===========================================================================
